---- MODULE Spec2Model ----
(***************************************************************************)
(* Model of the AM2320 driver (src/src/lib.rs): the checksum function      *)
(* crc16 and the bus sequence, frame validation and decoding of            *)
(* Am2320::read.  The I2C bus and the delay provider are the environment:  *)
(* the outcome of every bus transaction and the bytes a read delivers are  *)
(* chosen nondeterministically.                                            *)
(***************************************************************************)
EXTENDS Integers, Sequences, FiniteSets, Bags, TLC

VARIABLES
    pc,       \* position inside read() ("idle" between calls), or of test_crc16
    ops,      \* the collaborator operations issued by the current call, in order
    data,     \* the receive buffer `data` of read(), 8 bytes
    crc,      \* the local `crc` of read() / the value crc16 returned to the test
    result,   \* what the current call returned
    wakeRes,  \* outcome of the wake write of the current call
    cmdRes,   \* outcome of the command write of the current call
    readRes,  \* outcome of the bus read of the current call
    crcIn,    \* the slice handed to crc16
    prev      \* what the call before the current one returned ("None": no call)

vars == <<pc, ops, data, crc, result, wakeRes, cmdRes, readRes, crcIn, prev>>

---------------------------------------------------------------------------
(* Bounds of the model *)

\* longest byte sequence handed to crc16 on its own (besides the fixture)
MaxLen == 2

---------------------------------------------------------------------------
(* Integer helpers: u8 / u16 / i16 arithmetic of the source *)

\* bit i of x
Bit(x, i) == (x \div (2 ^ i)) % 2

\* a ^ b on 16-bit values: the sum of 2^i over the bits i where a and b differ
BitXor(a, b) ==
    BagCardinality([i \in {j \in 0..15 : Bit(a, j) # Bit(b, j)} |-> 2 ^ i])

\* a & b on 16-bit values: the sum of 2^i over the bits i set in both
BitAnd(a, b) ==
    BagCardinality([i \in {j \in 0..15 : Bit(a, j) = 1 /\ Bit(b, j) = 1} |-> 2 ^ i])

\* u16::from_le_bytes([lo, hi])
U16FromLeBytes(lo, hi) == lo + 256 * hi

\* u16::from_be_bytes([hi, lo])
U16FromBeBytes(hi, lo) == 256 * hi + lo

\* i16::from_be_bytes([hi, lo]): the 16 bits read as two's complement
I16FromBeBytes(hi, lo) ==
    IF 256 * hi + lo >= 32768 THEN 256 * hi + lo - 65536 ELSE 256 * hi + lo

\* `-x` on an i16 overflows exactly for i16::MIN
NegOverflows(x) == x = -32768

\* `-x` on an i16 (wrapping where it overflows)
NegI16(x) == IF NegOverflows(x) THEN x ELSE 0 - x

\* f32::from(x) / 10.0 for a 16-bit integer x: the conversion is exact and the
\* quotient is the f32 nearest to x/10, distinct for distinct x; it is kept as
\* the fraction x/10.
F32Div10(x) == [num |-> x, den |-> 10]

---------------------------------------------------------------------------
(* crc16 *)

\* crc16 with the XOR with 0xA001 left out
Crc16Round_NoPoly(c) == c \div 2

\* crc16 with the XOR applied before the shift instead of after it
Crc16Round_XorFirst(c) ==
    IF BitAnd(c, 1) = 1
    THEN BitXor(c, 40961) \div 2
    ELSE c \div 2

\* one round of the inner loop `for _ in 0..8`
Crc16Round(c) ==
    IF BitAnd(c, 1) = 1
    THEN BitXor(c \div 2, 40961)
    ELSE c \div 2

\* the inner loop `for _ in 0..8`, n rounds of it; the accumulator of the
\* rounds before is bound through a singleton set, so that it is evaluated
\* once, before it is used
RECURSIVE Crc16Rounds(_, _)
Crc16Rounds(c, n) ==
    IF n = 0 THEN c
    ELSE CHOOSE r \in {Crc16Round(x) : x \in {Crc16Rounds(c, n - 1)}} : TRUE

\* crc16 with seven rounds per byte, `for _ in 0..7`
Crc16Byte_SevenRounds(c, e) ==
    CHOOSE r \in {Crc16Rounds(x, 7) : x \in {BitXor(c, e)}} : TRUE

\* the body of `for e in data.iter()`
Crc16Byte(c, e) == CHOOSE r \in {Crc16Rounds(x, 8) : x \in {BitXor(c, e)}} : TRUE

\* the accumulator after the first n bytes; the accumulator of the bytes
\* before is bound through a singleton set, so that it is evaluated before it
\* is used
RECURSIVE Crc16Upto(_, _)
Crc16Upto(bytes, n) ==
    IF n = 0 THEN 65535
    ELSE CHOOSE r \in {Crc16Byte(c, bytes[n]) : c \in {Crc16Upto(bytes, n - 1)}} : TRUE

crc16(bytes) == Crc16Upto(bytes, Len(bytes))

---------------------------------------------------------------------------
(* Constants of the driver *)

DEVICE_I2C_ADDR == 92

\* `&[0x00]`, the wake write
WakeBytes == <<0>>

\* `&[0x03, 0x00, 0x04]`, the read command
ReadCommand == <<3, 0, 4>>

WakeDelayUs == 900

CommandDelayUs == 1600

\* `let mut data = [0; 8]`
ZeroData == <<0, 0, 0, 0, 0, 0, 0, 0>>

\* the canonical fixture of test_crc16
Fixture == <<3, 4, 2, 54, 0, 219>>

---------------------------------------------------------------------------
(* Collaborator operations and results *)

WriteOp(addr, bytes) == [op |-> "write", addr |-> addr, bytes |-> bytes]

DelayOp(us) == [op |-> "delay_us", us |-> us]

ReadOp(addr, len) == [op |-> "read", addr |-> addr, len |-> len]

\* outcome of a bus transaction, Result<(), E>
BusResults == {"ok", "fail"}

NoResult == [kind |-> "None"]

Err(e) == [kind |-> e]

Measurement(t, h) == [kind |-> "Ok", temperature |-> t, humidity |-> h]

---------------------------------------------------------------------------
(* The frames the bus delivers *)

FlipBit(b, k) == BitXor(b, 2 ^ k)

\* payload bytes 0-5: function code, register count, humidity, temperature
Payloads ==
    { <<b0, b1, b2, b3, b4, b5>> :
        b0 \in {3, 131}, b1 \in {4, 0}, b2 \in {2, 3, 255}, b3 \in {54, 232},
        b4 \in {0, 1, 128, 129, 255}, b5 \in {0, 219} }

\* a payload with its checksum: correct, with one bit of byte 6 or byte 7
\* flipped, or with the two checksum bytes swapped
FramesOf(p) ==
    LET c  == crc16(p)
        lo == c % 256
        hi == c \div 256
    IN  {p \o <<lo, hi>>, p \o <<hi, lo>>}
        \cup {p \o <<FlipBit(lo, k), hi>> : k \in 0..7}
        \cup {p \o <<lo, FlipBit(hi, k)>> : k \in 0..7}

\* a payload with the header read() expects and the right checksum, after one
\* bit of one of the bytes 2-5 was flipped on the wire (bytes 6-7 arrive intact)
CorruptedFramesOf(p) ==
    LET c    == crc16(p)
        good == p \o <<c % 256, c \div 256>>
    IN  {[good EXCEPT ![i] = FlipBit(@, k)] : i \in 3..6, k \in 0..7}

CorruptedFrames ==
    UNION {CorruptedFramesOf(p) : p \in {q \in Payloads : q[1] = 3 /\ q[2] = 4}}

Frames == UNION {FramesOf(p) : p \in Payloads} \cup CorruptedFrames

\* Bound on the frames of repeated calls: the first call of a run is delivered
\* any frame of Frames; a call made after another call is delivered the frames
\* that carry the measurement bytes of the fixture (every header, every
\* checksum variant, and the corrupted frames that end in those bytes).
LaterFrames == {f \in Frames : SubSeq(f, 3, 6) = SubSeq(Fixture, 3, 6)}

\* the frames the bus may deliver to a call, p being what the call before
\* returned; a failed read may also leave the buffer as it was
FramesAfter(p) == (IF p = "None" THEN Frames ELSE LaterFrames) \cup {ZeroData}

---------------------------------------------------------------------------
(* Am2320::read *)

\* the header check with `&&` in place of `||`
HeaderOk_And(d) == ~(d[1] # 3 /\ d[2] # 4)

\* `data[0] != 0x03 || data[1] != 0x04` is false
HeaderOk(d) == ~(d[1] # 3 \/ d[2] # 4)

\* the CRC check comparing the low byte only
CrcOk_LowByte(c, d) == ~((c % 256) # d[7])

\* the CRC check reading bytes 6-7 as big-endian
CrcOk_BigEndian(c, d) == ~(c # U16FromBeBytes(d[7], d[8]))

\* `crc != u16::from_le_bytes([data[6], data[7]])` is false
CrcOk(c, d) == ~(c # U16FromLeBytes(d[7], d[8]))

\* the temperature decoded without masking the sign bit out of byte 4
DecodeTemperature_NoMask(d) ==
    LET temperature == I16FromBeBytes(d[5], d[6])
    IN  IF BitAnd(d[5], 128) # 0 THEN NegI16(temperature) ELSE temperature

\* line 131 with the mask `& 0b0111_1111` left out
TemperatureBits_NoMask(d) == I16FromBeBytes(d[5], d[6])

\* line 131: `i16::from_be_bytes([data[4] & 0b0111_1111, data[5]])`
TemperatureBits(d) == I16FromBeBytes(BitAnd(d[5], 127), d[6])

\* lines 131-134, as an i16
DecodeTemperature(d) ==
    LET temperature == TemperatureBits(d)
    IN  IF BitAnd(d[5], 128) # 0 THEN NegI16(temperature) ELSE temperature

\* whether the negation of line 133 is executed on i16::MIN
DecodePanics(d) ==
    /\ BitAnd(d[5], 128) # 0
    /\ NegOverflows(TemperatureBits(d))

\* the humidity read as little-endian
DecodeHumidity_Le(d) == U16FromLeBytes(d[3], d[4])

\* the humidity read one byte too far into the frame
DecodeHumidity_Shifted(d) == U16FromBeBytes(d[4], d[5])

\* line 136, as a u16
DecodeHumidity(d) == U16FromBeBytes(d[3], d[4])

Init ==
    /\ pc = "idle"
    /\ ops = <<>>
    /\ data = ZeroData
    /\ crc = -1
    /\ result = NoResult
    /\ wakeRes = "none"
    /\ cmdRes = "none"
    /\ readRes = "none"
    /\ crcIn = <<>>
    /\ prev = "None"

\* a driver that remembers a successful read and skips the wake write of the
\* next call
Call_KeepAwake ==
    /\ pc \in {"idle", "done"}
    /\ pc' = IF result.kind = "Ok" THEN "command" ELSE "wake"
    /\ ops' = <<>>
    /\ data' = ZeroData
    /\ crc' = -1
    /\ result' = NoResult
    /\ wakeRes' = "none"
    /\ cmdRes' = "none"
    /\ readRes' = "none"
    /\ crcIn' = <<>>
    /\ prev' = result.kind

\* the caller calls read(): nothing of an earlier call is kept
Call ==
    /\ pc \in {"idle", "done"}
    /\ pc' = "wake"
    /\ ops' = <<>>
    /\ data' = ZeroData
    /\ crc' = -1
    /\ result' = NoResult
    /\ wakeRes' = "none"
    /\ cmdRes' = "none"
    /\ readRes' = "none"
    /\ crcIn' = <<>>
    /\ prev' = result.kind

\* the wake write with its failure propagated by `?`
WakeWrite_Propagating ==
    /\ pc = "wake"
    /\ ops' = Append(ops, WriteOp(DEVICE_I2C_ADDR, WakeBytes))
    /\ \E r \in BusResults :
        /\ wakeRes' = r
        /\ IF r = "fail"
           THEN pc' = "done" /\ result' = Err("WriteError")
           ELSE pc' = "wake_delay" /\ result' = result
    /\ UNCHANGED <<data, crc, cmdRes, readRes, crcIn, prev>>

\* `let _ = self.device.write(DEVICE_I2C_ADDR, &[0x00]);`
WakeWrite ==
    /\ pc = "wake"
    /\ \E r \in BusResults : wakeRes' = r
    /\ ops' = Append(ops, WriteOp(DEVICE_I2C_ADDR, WakeBytes))
    /\ pc' = "wake_delay"
    /\ UNCHANGED <<data, crc, result, cmdRes, readRes, crcIn, prev>>

\* the wake delay requested in milliseconds, `delay_ms(900)`
WakeDelay_Millis ==
    /\ pc = "wake_delay"
    /\ ops' = Append(ops, DelayOp(WakeDelayUs * 1000))
    /\ pc' = "command"
    /\ UNCHANGED <<data, crc, result, wakeRes, cmdRes, readRes, crcIn, prev>>

\* `self.delay.delay_us(900);`
WakeDelay ==
    /\ pc = "wake_delay"
    /\ ops' = Append(ops, DelayOp(WakeDelayUs))
    /\ pc' = "command"
    /\ UNCHANGED <<data, crc, result, wakeRes, cmdRes, readRes, crcIn, prev>>

\* the command write with its result dropped, as the wake write's is
CommandWrite_Ignoring ==
    /\ pc = "command"
    /\ ops' = Append(ops, WriteOp(DEVICE_I2C_ADDR, ReadCommand))
    /\ \E r \in BusResults : cmdRes' = r
    /\ pc' = "command_delay"
    /\ UNCHANGED <<data, crc, result, wakeRes, readRes, crcIn, prev>>

\* `self.device.write(DEVICE_I2C_ADDR, &[0x03, 0x00, 0x04]).map_err(..)?;`
CommandWrite ==
    /\ pc = "command"
    /\ ops' = Append(ops, WriteOp(DEVICE_I2C_ADDR, ReadCommand))
    /\ \E r \in BusResults :
        /\ cmdRes' = r
        /\ IF r = "fail"
           THEN pc' = "done" /\ result' = Err("WriteError")
           ELSE pc' = "command_delay" /\ result' = result
    /\ UNCHANGED <<data, crc, wakeRes, readRes, crcIn, prev>>

\* read() without the delay after the command write
CommandDelay_Skipped ==
    /\ pc = "command_delay"
    /\ pc' = "read"
    /\ UNCHANGED <<ops, data, crc, result, wakeRes, cmdRes, readRes, crcIn, prev>>

\* `self.delay.delay_us(1600);`
CommandDelay ==
    /\ pc = "command_delay"
    /\ ops' = Append(ops, DelayOp(CommandDelayUs))
    /\ pc' = "read"
    /\ UNCHANGED <<data, crc, result, wakeRes, cmdRes, readRes, crcIn, prev>>

\* the bus read with its result dropped
BusRead_Ignoring ==
    /\ pc = "read"
    /\ ops' = Append(ops, ReadOp(DEVICE_I2C_ADDR, Len(ZeroData)))
    /\ \E f \in FramesAfter(prev) : data' = f
    /\ \E r \in BusResults : readRes' = r
    /\ pc' = "validate"
    /\ UNCHANGED <<crc, result, wakeRes, cmdRes, crcIn, prev>>

\* the bus read issued again after a failure
BusRead_Retrying ==
    /\ pc = "read"
    /\ ops' = Append(ops, ReadOp(DEVICE_I2C_ADDR, Len(ZeroData)))
    /\ \E f \in FramesAfter(prev) : data' = f
    /\ \E r \in BusResults :
        /\ readRes' = r
        /\ IF r = "fail"
           THEN pc' = IF Len(ops) < 6 THEN "read" ELSE "done"
           ELSE pc' = "validate"
        /\ result' = IF r = "fail" /\ Len(ops) >= 6 THEN Err("ReadError") ELSE result
    /\ UNCHANGED <<crc, wakeRes, cmdRes, crcIn, prev>>

\* `let mut data = [0; 8]; self.device.read(DEVICE_I2C_ADDR, &mut data).map_err(..)?;`
\* A failed read may have written any bytes into the buffer before failing.
BusRead ==
    /\ pc = "read"
    /\ ops' = Append(ops, ReadOp(DEVICE_I2C_ADDR, Len(ZeroData)))
    /\ \E f \in FramesAfter(prev) : data' = f
    /\ \E r \in BusResults :
        /\ readRes' = r
        /\ IF r = "fail"
           THEN pc' = "done" /\ result' = Err("ReadError")
           ELSE pc' = "validate" /\ result' = result
    /\ UNCHANGED <<crc, wakeRes, cmdRes, crcIn, prev>>

\* read() spinning on a checksum mismatch instead of returning: the call takes
\* no further step once the header is right and the checksum is wrong
Validate_SpinOnBadCrc ==
    /\ pc = "validate"
    /\ IF ~HeaderOk(data)
       THEN /\ pc' = "done"
            /\ result' = Err("SensorError")
            /\ UNCHANGED <<crc, crcIn>>
       ELSE /\ crcIn' = SubSeq(data, 1, 6)
            /\ crc' = crc16(crcIn')
            /\ CrcOk(crc', data)
            /\ pc' = "decode"
            /\ result' = result
    /\ UNCHANGED <<ops, data, wakeRes, cmdRes, readRes, prev>>

\* lines 120-129: the header check, then the CRC check
Validate ==
    /\ pc = "validate"
    /\ IF ~HeaderOk(data)
       THEN /\ pc' = "done"
            /\ result' = Err("SensorError")
            /\ UNCHANGED <<crc, crcIn>>
       ELSE /\ crcIn' = SubSeq(data, 1, 6)
            /\ crc' = crc16(crcIn')
            /\ IF ~CrcOk(crc', data)
               THEN pc' = "done" /\ result' = Err("SensorError")
               ELSE pc' = "decode" /\ result' = result
    /\ UNCHANGED <<ops, data, wakeRes, cmdRes, readRes, prev>>

\* lines 131-141: decoding; a negation of i16::MIN would panic
Decode ==
    /\ pc = "decode"
    /\ pc' = "done"
    /\ result' = IF DecodePanics(data)
                 THEN Err("Panic")
                 ELSE Measurement(F32Div10(DecodeTemperature(data)),
                                  F32Div10(DecodeHumidity(data)))
    /\ UNCHANGED <<ops, data, crc, wakeRes, cmdRes, readRes, crcIn, prev>>

Next ==
    \/ Call
    \/ WakeWrite
    \/ WakeDelay
    \/ CommandWrite
    \/ CommandDelay
    \/ BusRead
    \/ Validate
    \/ Decode

Spec == Init /\ [][Next]_vars

\* the steps of a call in progress
Step ==
    \/ WakeWrite
    \/ WakeDelay
    \/ CommandWrite
    \/ CommandDelay
    \/ BusRead
    \/ Validate
    \/ Decode

---------------------------------------------------------------------------
(* crc16 on its own, as test_crc16 calls it *)

CrcBytes == {0, 1, 3, 4, 54, 128, 219, 255}

RECURSIVE SeqsUpTo(_, _)
SeqsUpTo(S, n) ==
    IF n = 0 THEN {<<>>}
    ELSE LET shorter == SeqsUpTo(S, n - 1)
         IN  shorter \cup {Append(s, b) : s \in shorter, b \in S}

CrcInputs == SeqsUpTo(CrcBytes, MaxLen) \cup {Fixture}

InitCrc ==
    /\ pc = "test"
    /\ crcIn \in CrcInputs
    /\ crc = -1
    /\ ops = <<>>
    /\ data = ZeroData
    /\ result = NoResult
    /\ wakeRes = "none"
    /\ cmdRes = "none"
    /\ readRes = "none"
    /\ prev = "None"

\* `crc16(&[...])` in test_crc16
TestCrc16 ==
    /\ pc = "test"
    /\ crc' = crc16(crcIn)
    /\ pc' = "tested"
    /\ UNCHANGED <<ops, data, result, wakeRes, cmdRes, readRes, crcIn, prev>>

NextCrc == TestCrc16

CrcSpec == InitCrc /\ [][NextCrc]_vars

---------------------------------------------------------------------------
(* Properties *)

\* the frame in the receive buffer passes both checks of read(), stated on
\* the bytes: byte 0 = 0x03, byte 1 = 0x04, checksum of bytes 0-5 = byte 6 +
\* 256 * byte 7
ValidFrame ==
    /\ data[1] = 3
    /\ data[2] = 4
    /\ crc16(SubSeq(data, 1, 6)) = data[7] + 256 * data[8]

\* C1: once the command write and the 8-byte read have both succeeded, the
\* operations issued by the call are exactly: write [0x00] to 0x5C, delay,
\* write [0x03, 0x00, 0x04] to 0x5C, delay, read of 8 bytes from 0x5C; nothing
\* is issued after them.
C1_OperationOrder ==
    (cmdRes = "ok" /\ readRes = "ok") =>
        /\ Len(ops) = 5
        /\ ops[1] = [op |-> "write", addr |-> 92, bytes |-> <<0>>]
        /\ ops[2].op = "delay_us"
        /\ ops[3] = [op |-> "write", addr |-> 92, bytes |-> <<3, 0, 4>>]
        /\ ops[4].op = "delay_us"
        /\ ops[5] = [op |-> "read", addr |-> 92, len |-> 8]

C1_Witness ==
    pc = "done" /\ cmdRes = "ok" /\ readRes = "ok" /\ result.kind = "Ok"

\* C2: whatever the outcome of the wake write, a call goes on to the delay
\* and the command write, and every error it returns has its own cause: a
\* write error a failed command write, a read error a failed bus read, a
\* sensor error a frame that fails validation.
C2_WakeResultIgnored ==
    /\ pc = "done" =>
        /\ Len(ops) >= 3
        /\ ops[2].op = "delay_us"
        /\ ops[3] = [op |-> "write", addr |-> 92, bytes |-> <<3, 0, 4>>]
    /\ result.kind = "WriteError" => cmdRes = "fail"
    /\ result.kind = "ReadError" => readRes = "fail"
    /\ result.kind = "SensorError" => (readRes = "ok" /\ ~ValidFrame)

C2_Witness ==
    pc = "done" /\ wakeRes = "fail" /\ result.kind = "Ok"

\* C3: a failed command write ends the call with the write error; the
\* command write is the last operation of the call: no second delay and no
\* bus read follow it.
C3_WriteErrorImmediate ==
    cmdRes = "fail" =>
        /\ pc = "done"
        /\ result.kind = "WriteError"
        /\ Len(ops) = 3
        /\ ops[3].op = "write"
        /\ readRes = "none"

C3_Witness ==
    pc = "done" /\ cmdRes = "fail" /\ result.kind = "WriteError"

\* C4: a failed bus read after a successful command write ends the call with
\* the read error, whatever is in the receive buffer; the frame is neither
\* validated nor decoded.
C4_ReadError ==
    (cmdRes = "ok" /\ readRes = "fail") =>
        /\ pc = "done"
        /\ result.kind = "ReadError"
        /\ crc = -1

C4_Witness ==
    pc = "done" /\ readRes = "fail" /\ ValidFrame /\ result.kind = "ReadError"

\* C5: a frame from a successful read whose byte 0 is not 0x03 or whose byte
\* 1 is not 0x04 is never decoded and is answered with the sensor error, also
\* when its checksum is right.
C5_HeaderRejected ==
    (readRes = "ok" /\ (data[1] # 3 \/ data[2] # 4)) =>
        /\ pc \in {"validate", "done"}
        /\ pc = "done" => result.kind = "SensorError"

C5_Witness ==
    /\ pc = "done"
    /\ readRes = "ok"
    /\ data[1] # 3 \/ data[2] # 4
    /\ crc16(SubSeq(data, 1, 6)) = data[7] + 256 * data[8]
    /\ result.kind = "SensorError"

\* the frame differs from a frame with the right checksum in one bit of byte
\* 6 or byte 7
ChecksumBitFlipped ==
    LET sum == crc16(SubSeq(data, 1, 6))
    IN  \E i \in {7, 8} : \E k \in 0..7 :
            LET good == [data EXCEPT ![i] = FlipBit(@, k)]
            IN  sum = good[7] + 256 * good[8]

\* C6: a frame from a successful read with byte 0 = 0x03 and byte 1 = 0x04 is
\* answered with the sensor error whenever the checksum of bytes 0-5 differs
\* from byte 6 + 256 * byte 7, in particular when one bit of byte 6 or byte 7
\* of a valid frame was flipped.
C6_ChecksumRejected ==
    (pc = "done" /\ readRes = "ok" /\ data[1] = 3 /\ data[2] = 4) =>
        /\ crc16(SubSeq(data, 1, 6)) # data[7] + 256 * data[8]
            => result.kind = "SensorError"
        /\ ChecksumBitFlipped => result.kind = "SensorError"

C6_Witness ==
    /\ pc = "done"
    /\ readRes = "ok"
    /\ data[1] = 3
    /\ data[2] = 4
    /\ ChecksumBitFlipped
    /\ FlipBit(data[8], 7) * 256 + data[7] = crc16(SubSeq(data, 1, 6))
    /\ result.kind = "SensorError"

\* C7: crc16 returns 0xFFFF for the empty sequence and 0x0550 for
\* [0x03, 0x04, 0x02, 0x36, 0x00, 0xDB].
C7_Crc16Fixtures ==
    pc = "tested" =>
        /\ crcIn = <<>> => crc = 65535
        /\ crcIn = <<3, 4, 2, 54, 0, 219>> => crc = 1360

C7_Witness ==
    pc = "tested" /\ crcIn = <<3, 4, 2, 54, 0, 219>> /\ crc = 1360

\* C8: for a valid frame the returned temperature is the 15-bit magnitude
\* (byte 4 & 0x7F) * 256 + byte 5 over 10 when the high bit of byte 4 is
\* clear, and minus that magnitude over 10, a negative value, when the high
\* bit is set and the magnitude is not zero.
C8_Temperature ==
    (pc = "done" /\ readRes = "ok" /\ ValidFrame) =>
        LET mag == (data[5] % 128) * 256 + data[6]
        IN  /\ result.kind = "Ok"
            /\ data[5] < 128 => result.temperature = [num |-> mag, den |-> 10]
            /\ (data[5] >= 128 /\ mag # 0) =>
                /\ result.temperature = [num |-> 0 - mag, den |-> 10]
                /\ result.temperature.num < 0

C8_Witness ==
    /\ pc = "done"
    /\ result.kind = "Ok"
    /\ data[5] >= 128
    /\ (data[5] % 128) * 256 + data[6] # 0
    /\ result.temperature.num < 0

\* C9: for a valid frame the returned humidity is (byte 2 * 256 + byte 3)
\* over 10, whatever the temperature bytes are.
C9_Humidity ==
    (pc = "done" /\ readRes = "ok" /\ ValidFrame) =>
        /\ result.kind = "Ok"
        /\ result.humidity = [num |-> data[3] * 256 + data[4], den |-> 10]

C9_Witness ==
    /\ pc = "done"
    /\ result.kind = "Ok"
    /\ data[3] = 255
    /\ data[5] = 129
    /\ result.humidity.num = 255 * 256 + data[4]

\* C10 as stated: the frame [0x03, 0x04, 0x02, 0x36, 0x00, 0xDB, 0x50, 0x05]
\* is decoded to a humidity of 56.2 percent.
C10_Humidity562 ==
    (pc = "done" /\ readRes = "ok" /\ data = <<3, 4, 2, 54, 0, 219, 80, 5>>) =>
        /\ result.kind = "Ok"
        /\ result.humidity = [num |-> 562, den |-> 10]

\* C10 (amended): the frame [0x03, 0x04, 0x02, 0x36, 0x00, 0xDB, 0x50, 0x05]
\* is decoded to a humidity of 56.6 percent (0x0236 = 566, over 10).
C10_Humidity566 ==
    (pc = "done" /\ readRes = "ok" /\ data = <<3, 4, 2, 54, 0, 219, 80, 5>>) =>
        /\ result.kind = "Ok"
        /\ result.humidity = [num |-> 566, den |-> 10]

C10_Witness ==
    /\ pc = "done"
    /\ readRes = "ok"
    /\ data = <<3, 4, 2, 54, 0, 219, 80, 5>>
    /\ result.kind = "Ok"

\* C11: the humidity of every Measurement returned lies in 0.0 .. 100.0
\* percent, that is 0 .. 1000 tenths.
C11_HumidityRange ==
    (pc = "done" /\ result.kind = "Ok") =>
        /\ result.humidity.den = 10
        /\ result.humidity.num \in 0..1000

\* the number of operations of kind k issued by the current call
OpCount(k) == Cardinality({i \in 1..Len(ops) : ops[i].op = k})

\* C12: within one call the wake write, the command write and the bus read
\* are each issued at most once: at most two writes and at most one read,
\* whatever fails.
C12_NoRetry ==
    /\ OpCount("write") <= 2
    /\ OpCount("read") <= 1
    /\ Cardinality({i \in 1..Len(ops) :
            ops[i] = [op |-> "write", addr |-> 92, bytes |-> <<0>>]}) <= 1
    /\ Cardinality({i \in 1..Len(ops) :
            ops[i] = [op |-> "write", addr |-> 92, bytes |-> <<3, 0, 4>>]}) <= 1

C12_Witness ==
    /\ pc = "done"
    /\ wakeRes = "fail"
    /\ readRes = "fail"
    /\ OpCount("write") = 2
    /\ OpCount("read") = 1

\* the kind of result the bus responses of the current call determine: the
\* first of command write, bus read and frame validation that failed
ExpectedKind ==
    IF cmdRes = "fail" THEN "WriteError"
    ELSE IF readRes = "fail" THEN "ReadError"
    ELSE IF ~ValidFrame THEN "SensorError"
    ELSE "Ok"

\* C13: nothing is carried from one call to the next: whatever the call
\* before returned, a call starts with fresh locals, its first operation is
\* the wake write, and what it returns is determined by the bus responses of
\* this call alone (the outcomes of its command write and bus read and the
\* bytes of its frame).
C13_NoStateBetweenCalls ==
    /\ pc = "wake" =>
        /\ ops = <<>>
        /\ result.kind = "None"
        /\ wakeRes = "none" /\ cmdRes = "none" /\ readRes = "none"
    /\ pc \notin {"idle", "wake", "test", "tested"} =>
        /\ Len(ops) >= 1
        /\ ops[1] = [op |-> "write", addr |-> 92, bytes |-> <<0>>]
    /\ pc = "done" =>
        /\ result.kind = ExpectedKind
        /\ result.kind = "Ok" =>
            /\ result.humidity.num = data[3] * 256 + data[4]
            /\ result.temperature.num =
                IF data[5] >= 128
                THEN 0 - ((data[5] - 128) * 256 + data[6])
                ELSE data[5] * 256 + data[6]

C13_Witness ==
    /\ prev = "SensorError"
    /\ pc = "done"
    /\ result.kind = "Ok"
    /\ ops[1] = [op |-> "write", addr |-> 92, bytes |-> <<0>>]

\* the position of a call in its sequence of steps
Rank(p) ==
    CASE p = "wake" -> 1
      [] p = "wake_delay" -> 2
      [] p = "command" -> 3
      [] p = "command_delay" -> 4
      [] p = "read" -> 5
      [] p = "validate" -> 6
      [] p = "decode" -> 7
      [] p = "done" -> 8
      [] OTHER -> 0

\* C14: with every bus and delay operation returning, a call always comes to
\* its end with a Measurement or one of the three errors: a call in progress
\* is never stuck (whatever the bus outcomes and the frame, it can take its
\* next step), every step moves it strictly forward through its finitely many
\* positions, and at its end it holds one of the four results.
C14_Terminates ==
    /\ [](pc \in {"wake", "wake_delay", "command", "command_delay", "read",
                  "validate", "decode"} => ENABLED Step)
    /\ [][pc' # "wake" => Rank(pc') > Rank(pc)]_vars
    /\ [](pc = "done" =>
            result.kind \in {"Ok", "WriteError", "ReadError", "SensorError"})

C14_Witness ==
    /\ pc = "done"
    /\ wakeRes = "fail"
    /\ readRes = "ok"
    /\ data[1] = 3
    /\ data[2] = 4
    /\ result.kind = "SensorError"

\* C15: the delay after the wake write is 800 .. 3000 microseconds, the
\* delay after a successful command write is at least 1500 microseconds, and
\* a call requests each of them exactly once when it reaches it: one delay
\* once it is past the wake delay, two once it is past the command delay, and
\* only the first when the command write failed.
C15_Delays ==
    /\ Rank(pc) >= 3 =>
        /\ ops[2].op = "delay_us"
        /\ ops[2].us >= 800
        /\ ops[2].us <= 3000
    /\ Rank(pc) >= 5 /\ cmdRes = "ok" =>
        /\ ops[4].op = "delay_us"
        /\ ops[4].us >= 1500
    /\ OpCount("delay_us") =
        IF Rank(pc) >= 5 /\ cmdRes = "ok" THEN 2
        ELSE IF Rank(pc) >= 3 THEN 1
        ELSE 0

C15_Witness ==
    /\ pc = "done"
    /\ readRes = "ok"
    /\ OpCount("delay_us") = 2
    /\ ops[2].us = 900
    /\ ops[4].us = 1600

\* The reference reflected CRC-16, on integers without the bit operations of
\* the model: RefToggle flips one bit by adding or subtracting its weight.
RefToggle(c, i) ==
    IF (c \div (2 ^ i)) % 2 = 1 THEN c - 2 ^ i ELSE c + 2 ^ i

\* the byte b XORed into the low 8 bits of c, bit i downwards
RECURSIVE RefXorLow(_, _, _)
RefXorLow(c, b, i) ==
    IF i < 0 THEN c
    ELSE CHOOSE r \in
            {RefXorLow(x, b, i - 1) :
                x \in {IF (b \div (2 ^ i)) % 2 = 1 THEN RefToggle(c, i) ELSE c}} : TRUE

\* shift right by one bit; XOR with 0xA001 (bits 15, 13 and 0) exactly when
\* the bit shifted out was 1
RefShift(c) ==
    IF c % 2 = 1
    THEN RefToggle(RefToggle(RefToggle((c - 1) \div 2, 15), 13), 0)
    ELSE c \div 2

RECURSIVE RefShifts(_, _)
RefShifts(c, n) ==
    IF n = 0 THEN c
    ELSE CHOOSE r \in {RefShifts(x, n - 1) : x \in {RefShift(c)}} : TRUE

RECURSIVE RefCrc16From(_, _, _)
RefCrc16From(c, bytes, i) ==
    IF i > Len(bytes) THEN c
    ELSE CHOOSE r \in
            {RefCrc16From(x, bytes, i + 1) :
                x \in {RefShifts(RefXorLow(c, bytes[i], 7), 8)}} : TRUE

RefCrc16(bytes) == RefCrc16From(65535, bytes, 1)

\* C16: for every byte sequence crc16 returns the reference reflected CRC-16
\* (start 0xFFFF; per byte XOR into the low 8 bits, then 8 times shift right
\* and XOR with 0xA001 when the bit shifted out was 1), a value in 0 .. 0xFFFF.
C16_Crc16IsReference ==
    pc = "tested" =>
        /\ crc = RefCrc16(crcIn)
        /\ crc \in 0..65535

C16_Witness ==
    /\ pc = "tested"
    /\ Len(crcIn) = 2
    /\ crcIn[1] = 255
    /\ crc = RefCrc16(crcIn)

\* C17: a call returns a Measurement exactly when the command write
\* succeeded, the read succeeded and the frame is valid; otherwise its error
\* is that of the first of these that failed: WriteError, then ReadError, then
\* SensorError.
C17_ResultClassification ==
    pc = "done" =>
        /\ result.kind = "Ok" <=> (cmdRes = "ok" /\ readRes = "ok" /\ ValidFrame)
        /\ result.kind = "WriteError" <=> cmdRes = "fail"
        /\ result.kind = "ReadError" <=> (cmdRes = "ok" /\ readRes = "fail")
        /\ result.kind = "SensorError" <=>
            (cmdRes = "ok" /\ readRes = "ok" /\ ~ValidFrame)

C17_Witness ==
    /\ pc = "done"
    /\ readRes = "ok"
    /\ data[1] = 3
    /\ data[2] = 4
    /\ crc16(SubSeq(data, 1, 6)) = data[8] + 256 * data[7]
    /\ data[7] # data[8]
    /\ result.kind = "SensorError"

\* C18: decoding the temperature never overflows the i16 and never panics:
\* the magnitude is in 0 .. 32767, the decoded tenths are in -32767 .. 32767,
\* and a valid frame with the sign bit set and magnitude zero decodes to 0.
C18_NoOverflow ==
    /\ result.kind # "Panic"
    /\ pc = "decode" =>
        /\ (data[5] % 128) * 256 + data[6] \in 0..32767
        /\ TemperatureBits(data) \in 0..32767
        /\ ~DecodePanics(data)
    /\ (pc = "done" /\ result.kind = "Ok") =>
        /\ result.temperature.num \in -32767..32767
        /\ data[5] >= 128 => result.temperature.num \in -32767..0
        /\ (data[5] = 128 /\ data[6] = 0) => result.temperature.num = 0

C18_Witness ==
    /\ pc = "done"
    /\ result.kind = "Ok"
    /\ data[5] = 128
    /\ data[6] = 0
    /\ result.temperature.num = 0

\* the frame with bit k of byte i (counted from 1) flipped
Flipped(f, i, k) == [f EXCEPT ![i] = FlipBit(@, k)]

\* the frame in the buffer is a frame with the right header and checksum in
\* which one bit of one of the bytes 2-5 was flipped
PayloadBitFlipped ==
    /\ data[1] = 3
    /\ data[2] = 4
    /\ \E i \in 3..6 : \E k \in 0..7 :
        crc16(SubSeq(Flipped(data, i, k), 1, 6)) = data[7] + 256 * data[8]

\* C19: flipping one bit of one of the bytes 2-5 of a frame that read()
\* accepts, bytes 6-7 left alone, gives a frame that read() answers with the
\* sensor error: no such flip of an accepted frame has the checksum its bytes
\* 6-7 carry, and every such frame the bus delivers (the frames of
\* CorruptedFrames) is rejected.
C19_SingleBitDetected ==
    /\ (pc = "done" /\ result.kind = "Ok") =>
        \A i \in 3..6 : \A k \in 0..7 :
            crc16(SubSeq(Flipped(data, i, k), 1, 6)) # data[7] + 256 * data[8]
    /\ (pc = "done" /\ readRes = "ok" /\ data \in CorruptedFrames) =>
        result.kind = "SensorError"

C19_Witness ==
    /\ pc = "done"
    /\ readRes = "ok"
    /\ data = <<3, 4, 2, 54, 0, 218, 80, 5>>
    /\ PayloadBitFlipped
    /\ result.kind = "SensorError"

====
